---- MODULE Spec2Model ----
(***************************************************************************)
(* Model of Queue<T> (src/QueueTest/queue.h): a fixed-capacity circular    *)
(* buffer guarded by one mutex and one condition variable.  Threads call   *)
(* Push, Pop, PopWithTimeout, Count and Size; every step that touches the  *)
(* protected fields is taken while the calling thread owns mtx.            *)
(***************************************************************************)
EXTENDS Integers, Sequences, FiniteSets

\* ---------------------------------------------------------------- bounds
NumThreads == 2        \* caller threads
MaxSize == 2           \* largest capacity passed to the constructor
MaxPush == 3           \* Push calls started in one run
MaxMs == 1             \* largest PopWithTimeout argument, in clock ticks

NoThread == 0
\* A slot of `new T[size]` that has not been written yet, and what reading
\* such a slot may yield.
Uninit == 0
Indeterminate == 0..MaxPush
NoTimer == -1

VARIABLES
    capacity,     \* the constructor's argument
    status,       \* "ok" | "ctor_threw" (no object) | "crashed" | "corrupt"
    size,         \* Queue::size
    count,        \* Queue::count
    front,        \* Queue::front
    rear,         \* Queue::rear
    elements,     \* Queue::elements, a function on 0..size-1
    mtx,          \* owner of Queue::mtx, NoThread when free
    pc,           \* where each thread is
    milliseconds, \* per thread in PopWithTimeout: the call's argument, in ticks,
                  \* until wait_for has turned it into a deadline (then 0)
    timer,        \* ticks left until the wait_for deadline, NoTimer when unset
    ret,          \* the return or throw made by the last step, if any
    pushLog,      \* elements written by Push, in critical-section order
    popLog,       \* elements returned by Pop/PopWithTimeout, in that order
    evictions,    \* number of Push calls that ran with count = size
    evicted,      \* the elements those calls overwrote
    pushAfterPop, \* a Push has run after some element was popped
    owedFrom,     \* per thread blocked in Pop: index in pushLog of the Push
                  \* that ended its wait on an empty queue, 0 when none
    offer         \* per thread in PopWithTimeout: what the call was offered

queue == <<size, count, front, rear, elements>>
logs == <<pushLog, popLog, evictions, evicted, pushAfterPop>>
vars == <<capacity, status, size, count, front, rear, elements, mtx, pc,
          milliseconds, timer, ret, pushLog, popLog, evictions, evicted,
          pushAfterPop, owedFrom, offer>>

\* The threads that share the queue in this run.
Threads == DOMAIN pc

NoRet == [op |-> "none", val |-> 0]
Return(op, v) == [op |-> op, val |-> v]

ConsumerStates == {"pop_lock", "pop_cs", "pop_wait", "pop_relock",
                   "pwt_lock", "pwt_cs", "pwt_wait", "pwt_relock",
                   "pwt_expired", "pwt_final"}
PwtStates == {"pwt_lock", "pwt_cs", "pwt_wait", "pwt_relock",
              "pwt_expired", "pwt_final"}
PusherStates == {"push_lock", "push_cs"}
HoldingStates == {"push_cs", "pop_cs", "pwt_cs", "pwt_final", "count_cs"}

\* ----------------------------------------------------------- construction
\* Queue(int size): the fields after the member initialisers; `new T[size]`
\* throws std::bad_array_new_length for a negative size and yields a
\* zero-length array for size 0.
CtorStatus(n) == IF n < 0 THEN "ctor_threw" ELSE "ok"

Slots(n) == IF n > 0 THEN 0..(n - 1) ELSE {}

InitFor(Caps, T) ==
    /\ capacity \in Caps
    /\ status = CtorStatus(capacity)
    /\ size = capacity
    /\ count = 0
    /\ front = 0
    /\ rear = 0
    /\ elements = [i \in Slots(capacity) |-> Uninit]
    /\ mtx = NoThread
    /\ pc = [t \in T |-> "idle"]
    /\ milliseconds = [t \in T |-> 0]
    /\ timer = [t \in T |-> NoTimer]
    /\ ret = NoRet
    /\ pushLog = <<>>
    /\ popLog = <<>>
    /\ evictions = 0
    /\ evicted = {}
    /\ pushAfterPop = FALSE
    /\ owedFrom = [t \in T |-> 0]
    /\ offer = [t \in T |-> "none"]

InitWith(Caps) == InitFor(Caps, 1..NumThreads)

\* Construction within the documented precondition (size >= 1).
Init == InitWith(1..MaxSize)

\* Construction with any int the constructor accepts.
InitAnyCapacity == InitWith(-1..MaxSize)

\* ------------------------------------------------------------ pure steps
\* Mutant: Push counts every element, also one that overwrites.
PushCountAlways(c, n) == c + 1

\* Mutant: Push takes the queue for full one element early.
PushCountFullEarly(c, n) == IF c = n - 1 THEN c ELSE c + 1

\* Push, lines 44-49: the new count.
PushCount(c, n) == IF c = n THEN c ELSE c + 1

\* Mutant: a full queue keeps its front, so the overwritten slot stays oldest.
PushFrontKept(f, c, n) == f

\* Mutant: Push advances front on every call, full or not.
PushFrontAlways(f, c, n) == (f + 1) % n

\* Push, lines 44-49: the new front.
PushFront(f, c, n) == IF c = n THEN (f + 1) % n ELSE f

\* Mutant: a pop forgets to decrement.
PopCountKept(c) == c

\* --count, lines 69 and 90.
PopCount(c) == c - 1

\* Mutant: the index moves on without wrapping around.
AdvanceNoWrap(i, n) == i + 1

\* (x + 1) % size, lines 52, 68, 89.
Advance(i, n) == (i + 1) % n

\* Mutant: a pop reads the newest element instead of the oldest.
ReadNewest(i) == {elements[(rear + size - 1) % size]}

\* T element = elements[i], lines 67 and 88.
Read(i) == IF elements[i] = Uninit THEN Indeterminate ELSE {elements[i]}

\* Threads suspended inside cond_var.wait / cond_var.wait_for.
Waiters == {w \in Threads : pc[w] \in {"pop_wait", "pwt_wait"}}

Woken(w) == IF pc[w] = "pop_wait" THEN "pop_relock" ELSE "pwt_relock"

PushesStarted == Len(pushLog) + Cardinality({t \in Threads : pc[t] \in PusherStates})

\* ------------------------------------------------------- history updates
\* A consumer call by u ends the "no other consumer active" condition of
\* every other thread; u's own record starts afresh.
OwedOnConsumerCall(u) == [t \in Threads |-> 0]

\* Push number k runs: a thread suspended in Pop on the empty queue, with no
\* other thread inside Pop or PopWithTimeout, is owed that element.
OwedOnPush(k) ==
    [t \in Threads |->
        IF owedFrom[t] > 0 THEN owedFrom[t]
        ELSE IF /\ pc[t] = "pop_wait"
                /\ count = 0
                /\ \A u \in Threads \ {t} : pc[u] \notin ConsumerStates
             THEN k ELSE 0]

\* Push runs: a PopWithTimeout call that has been offered nothing so far is
\* offered an element, before or after its deadline.
OfferOnPush ==
    [t \in Threads |->
        IF pc[t] \in PwtStates /\ offer[t] = "none"
        THEN (IF timer[t] = 0 THEN "late" ELSE "early")
        ELSE offer[t]]

\* Thread u dequeues: u's call ends, and an element offered early to another
\* PopWithTimeout call has been taken from under it.
OfferOnTake(u) ==
    [t \in Threads |->
        IF t = u THEN "none"
        ELSE IF pc[t] \in PwtStates /\ offer[t] = "early" THEN "stolen"
        ELSE offer[t]]

\* ------------------------------------------------------------------ calls
\* A call moves the thread to the first statement of the method, which takes
\* the mutex.  Push's element is drawn in the step that copies it (PushBody);
\* PopWithTimeout's duration is fixed by the call.
CallPush(t) ==
    /\ status = "ok"
    /\ pc[t] = "idle"
    /\ PushesStarted < MaxPush
    /\ pc' = [pc EXCEPT ![t] = "push_lock"]
    /\ ret' = NoRet
    /\ UNCHANGED <<capacity, status, queue, mtx, milliseconds, timer, logs, owedFrom, offer>>

CallPop(t) ==
    /\ status = "ok"
    /\ pc[t] = "idle"
    /\ pc' = [pc EXCEPT ![t] = "pop_lock"]
    /\ ret' = NoRet
    /\ owedFrom' = OwedOnConsumerCall(t)
    /\ UNCHANGED <<capacity, status, queue, mtx, milliseconds, timer, logs, offer>>

CallPopWithTimeout(t, ms) ==
    /\ status = "ok"
    /\ pc[t] = "idle"
    /\ pc' = [pc EXCEPT ![t] = "pwt_lock"]
    /\ milliseconds' = [milliseconds EXCEPT ![t] = ms]
    /\ ret' = NoRet
    /\ owedFrom' = OwedOnConsumerCall(t)
    /\ offer' = [offer EXCEPT ![t] = IF count > 0 THEN "early" ELSE "none"]
    /\ UNCHANGED <<capacity, status, queue, mtx, timer, logs>>

CallCount(t) ==
    /\ status = "ok"
    /\ pc[t] = "idle"
    /\ pc' = [pc EXCEPT ![t] = "count_lock"]
    /\ ret' = NoRet
    /\ UNCHANGED <<capacity, status, queue, mtx, milliseconds, timer, logs, owedFrom, offer>>

\* Mutant: Size() returns the number of live elements.
SizeReturnsCount(t) ==
    /\ status = "ok"
    /\ pc[t] = "idle"
    /\ ret' = Return("Size", count)
    /\ UNCHANGED <<capacity, status, queue, mtx, pc, milliseconds, timer, logs, owedFrom, offer>>

\* Size(): reads the immutable field without taking the lock.
Size(t) ==
    /\ status = "ok"
    /\ pc[t] = "idle"
    /\ ret' = Return("Size", size)
    /\ UNCHANGED <<capacity, status, queue, mtx, pc, milliseconds, timer, logs, owedFrom, offer>>

\* --------------------------------------------------------------- locking
LockTarget(p) ==
    CASE p = "push_lock"   -> "push_cs"
      [] p = "pop_lock"    -> "pop_cs"
      [] p = "pwt_lock"    -> "pwt_cs"
      [] p = "count_lock"  -> "count_cs"
      [] p = "pop_relock"  -> "pop_cs"
      [] p = "pwt_relock"  -> "pwt_cs"
      [] p = "pwt_expired" -> "pwt_final"
      [] OTHER             -> p

\* unique_lock<mutex> lock(mtx) / lock_guard<mutex> lock(mtx) on entry.
Lock(t) ==
    /\ status = "ok"
    /\ pc[t] \in {"push_lock", "pop_lock", "pwt_lock", "count_lock"}
    /\ mtx = NoThread
    /\ mtx' = t
    /\ pc' = [pc EXCEPT ![t] = LockTarget(pc[t])]
    /\ ret' = NoRet
    /\ UNCHANGED <<capacity, status, queue, milliseconds, timer, logs, owedFrom, offer>>

\* Mutant: wait returns to its caller without taking the mutex again first.
ReacquireUnchecked(t) ==
    /\ status = "ok"
    /\ pc[t] \in {"pop_relock", "pwt_relock", "pwt_expired"}
    /\ mtx' = t
    /\ pc' = [pc EXCEPT ![t] = LockTarget(pc[t])]
    /\ ret' = NoRet
    /\ UNCHANGED <<capacity, status, queue, milliseconds, timer, logs, owedFrom, offer>>

\* A woken or timed-out waiter takes the mutex again before wait returns.
Reacquire(t) ==
    /\ status = "ok"
    /\ pc[t] \in {"pop_relock", "pwt_relock", "pwt_expired"}
    /\ mtx = NoThread
    /\ mtx' = t
    /\ pc' = [pc EXCEPT ![t] = LockTarget(pc[t])]
    /\ ret' = NoRet
    /\ UNCHANGED <<capacity, status, queue, milliseconds, timer, logs, owedFrom, offer>>

\* ------------------------------------------------------------------ Push
\* Mutant: Push forgets to notify.
NotifyNone(t) == pc' = [pc EXCEPT ![t] = "idle"]

\* Mutant: Push notifies only when it makes the empty queue non-empty.
NotifyWhenWasEmpty(t) ==
    \/ /\ (Waiters = {} \/ count > 0)
       /\ pc' = [pc EXCEPT ![t] = "idle"]
    \/ /\ count = 0
       /\ \E w \in Waiters : pc' = [pc EXCEPT ![t] = "idle", ![w] = Woken(w)]

\* Mutant: Push calls notify_all.
NotifyAll(t) ==
    pc' = [w \in Threads |->
              IF w = t THEN "idle"
              ELSE IF w \in Waiters THEN Woken(w)
              ELSE pc[w]]

\* cond_var.notify_one(), line 54: one suspended thread, if any, is woken.
NotifyOne(t) ==
    \/ /\ Waiters = {}
       /\ pc' = [pc EXCEPT ![t] = "idle"]
    \/ \E w \in Waiters : pc' = [pc EXCEPT ![t] = "idle", ![w] = Woken(w)]

\* The element a Push call passes.  The queue only copies its elements (T is
\* a template parameter), so each call passes a fresh one, numbered by its
\* place in the order of the Push critical sections: every element stays
\* distinguishable from every other.
NextElement == Len(pushLog) + 1

\* Push(element), lines 44-55, on a queue of size >= 1.
PushBody(t, v) ==
    /\ status = "ok"
    /\ pc[t] = "push_cs"
    /\ mtx = t
    /\ size > 0
    /\ count' = PushCount(count, size)
    /\ front' = PushFront(front, count, size)
    /\ elements' = [elements EXCEPT ![rear] = v]
    /\ rear' = Advance(rear, size)
    /\ NotifyOne(t)
    /\ mtx' = NoThread
    /\ ret' = Return("Push", v)
    /\ pushLog' = Append(pushLog, v)
    /\ evictions' = IF count = size THEN evictions + 1 ELSE evictions
    /\ evicted' = IF count = size THEN evicted \cup {elements[front]} ELSE evicted
    /\ pushAfterPop' = (pushAfterPop \/ Len(popLog) > 0)
    /\ owedFrom' = OwedOnPush(Len(pushLog) + 1)
    /\ offer' = OfferOnPush
    /\ UNCHANGED <<capacity, status, size, milliseconds, timer, popLog>>

\* Lines 44-45 on a queue of size 0: count == size holds, so the code
\* evaluates (front + 1) % 0.  Integer division by zero is undefined: the
\* build traps, or carries on into the out-of-bounds store of line 51.
PushBodyZero(t) ==
    /\ status = "ok"
    /\ pc[t] = "push_cs"
    /\ mtx = t
    /\ size = 0
    /\ status' \in {"crashed", "corrupt"}
    /\ ret' = NoRet
    /\ UNCHANGED <<capacity, queue, mtx, pc, milliseconds, timer, logs, owedFrom, offer>>

\* ------------------------------------------------------------------- Pop
\* Mutant: a consumer that wait has returned to dequeues without looking at
\* count again (an `if` in place of the predicate loop).
TakeUnchecked(t, op) ==
    /\ count >= 0
    /\ \E x \in Read(front) :
          /\ popLog' = Append(popLog, x)
          /\ ret' = Return(op, x)
    /\ front' = Advance(front, size)
    /\ count' = PopCount(count)
    /\ pc' = [pc EXCEPT ![t] = "idle"]
    /\ mtx' = NoThread
    /\ milliseconds' = [milliseconds EXCEPT ![t] = 0]
    /\ timer' = [timer EXCEPT ![t] = NoTimer]
    /\ owedFrom' = [owedFrom EXCEPT ![t] = 0]
    /\ offer' = OfferOnTake(t)
    /\ UNCHANGED <<capacity, status, size, rear, elements, pushLog, evictions,
                   evicted, pushAfterPop>>

\* Mutant: a pop returns elements[front] but leaves front where it is.
TakeKeepsFront(t, op) ==
    /\ count > 0
    /\ \E x \in Read(front) :
          /\ popLog' = Append(popLog, x)
          /\ ret' = Return(op, x)
    /\ front' = front
    /\ count' = PopCount(count)
    /\ pc' = [pc EXCEPT ![t] = "idle"]
    /\ mtx' = NoThread
    /\ milliseconds' = [milliseconds EXCEPT ![t] = 0]
    /\ timer' = [timer EXCEPT ![t] = NoTimer]
    /\ owedFrom' = [owedFrom EXCEPT ![t] = 0]
    /\ offer' = OfferOnTake(t)
    /\ UNCHANGED <<capacity, status, size, rear, elements, pushLog, evictions,
                   evicted, pushAfterPop>>

\* Lines 67-71 and 88-92: read elements[front], advance front, decrement
\* count, return the element (the unique_lock unlocks).
Take(t, op) ==
    /\ count > 0
    /\ \E x \in Read(front) :
          /\ popLog' = Append(popLog, x)
          /\ ret' = Return(op, x)
    /\ front' = Advance(front, size)
    /\ count' = PopCount(count)
    /\ pc' = [pc EXCEPT ![t] = "idle"]
    /\ mtx' = NoThread
    /\ milliseconds' = [milliseconds EXCEPT ![t] = 0]
    /\ timer' = [timer EXCEPT ![t] = NoTimer]
    /\ owedFrom' = [owedFrom EXCEPT ![t] = 0]
    /\ offer' = OfferOnTake(t)
    /\ UNCHANGED <<capacity, status, size, rear, elements, pushLog, evictions,
                   evicted, pushAfterPop>>

\* Mutant: the consumer suspends without releasing the mutex.
PopWaitHoldingLock(t) ==
    /\ status = "ok"
    /\ pc[t] = "pop_cs"
    /\ mtx = t
    /\ count = 0
    /\ pc' = [pc EXCEPT ![t] = "pop_wait"]
    /\ ret' = NoRet
    /\ UNCHANGED <<capacity, status, queue, mtx, milliseconds, timer, logs, owedFrom, offer>>

\* Line 65 with the predicate false: wait releases the mutex and suspends.
PopWait(t) ==
    /\ status = "ok"
    /\ pc[t] = "pop_cs"
    /\ mtx = t
    /\ count = 0
    /\ pc' = [pc EXCEPT ![t] = "pop_wait"]
    /\ mtx' = NoThread
    /\ ret' = NoRet
    /\ UNCHANGED <<capacity, status, queue, milliseconds, timer, logs, owedFrom, offer>>

\* Line 65 with the predicate true, then lines 67-72.
PopTake(t) ==
    /\ status = "ok"
    /\ pc[t] = "pop_cs"
    /\ mtx = t
    /\ Take(t, "Pop")

\* -------------------------------------------------------- PopWithTimeout
\* Mutant: wait_for ignores its argument and waits the longest duration.
DeadlineIgnoresArgument(running, ms) == IF running = NoTimer THEN MaxMs ELSE running

\* wait_for fixes the deadline once, on entry: now + milliseconds.  A wait
\* resumed after a wake-up keeps the deadline that is running.
Deadline(running, ms) == IF running = NoTimer THEN ms ELSE running

\* Line 84, predicate false and the deadline not yet seen to pass: wait_for
\* fixes the deadline on entry (now + milliseconds), releases the mutex and
\* suspends.
PwtWait(t) ==
    /\ status = "ok"
    /\ pc[t] = "pwt_cs"
    /\ mtx = t
    /\ count = 0
    /\ timer' = [timer EXCEPT ![t] = Deadline(timer[t], milliseconds[t])]
    /\ milliseconds' = [milliseconds EXCEPT ![t] = 0]
    /\ pc' = [pc EXCEPT ![t] = "pwt_wait"]
    /\ mtx' = NoThread
    /\ ret' = NoRet
    /\ UNCHANGED <<capacity, status, queue, logs, owedFrom, offer>>

\* Mutant: the test of wait_for's result is inverted (the `!` of line 84 is
\* missing), so the function throws when the predicate holds.
PwtTakeInverted(t) ==
    /\ status = "ok"
    /\ pc[t] \in {"pwt_cs", "pwt_final"}
    /\ mtx = t
    /\ count > 0
    /\ ret' = Return("Timeout", 0)
    /\ pc' = [pc EXCEPT ![t] = "idle"]
    /\ mtx' = NoThread
    /\ milliseconds' = [milliseconds EXCEPT ![t] = 0]
    /\ timer' = [timer EXCEPT ![t] = NoTimer]
    /\ offer' = [offer EXCEPT ![t] = "none"]
    /\ UNCHANGED <<capacity, status, queue, logs, owedFrom>>

\* Line 84 with the predicate true (on entry, after a wake-up or after the
\* deadline), then lines 88-92.
PwtTake(t) ==
    /\ status = "ok"
    /\ pc[t] \in {"pwt_cs", "pwt_final"}
    /\ mtx = t
    /\ Take(t, "PopWithTimeout")

\* The deadline passes while the thread is suspended in wait_for.
Expire(t) ==
    /\ status = "ok"
    /\ pc[t] = "pwt_wait"
    /\ timer[t] = 0
    /\ pc' = [pc EXCEPT ![t] = "pwt_expired"]
    /\ ret' = NoRet
    /\ UNCHANGED <<capacity, status, queue, mtx, milliseconds, timer, logs, owedFrom, offer>>

\* Mutant: the timeout path dequeues before it throws.
PwtThrowDequeues(t) ==
    /\ status = "ok"
    /\ pc[t] = "pwt_final"
    /\ mtx = t
    /\ count = 0
    /\ front' = Advance(front, size)
    /\ ret' = Return("Timeout", 0)
    /\ pc' = [pc EXCEPT ![t] = "idle"]
    /\ mtx' = NoThread
    /\ milliseconds' = [milliseconds EXCEPT ![t] = 0]
    /\ timer' = [timer EXCEPT ![t] = NoTimer]
    /\ offer' = [offer EXCEPT ![t] = "none"]
    /\ UNCHANGED <<capacity, status, size, count, rear, elements, logs, owedFrom>>

\* Mutant: after the deadline the function throws without evaluating the
\* predicate again.
PwtThrowUnchecked(t) ==
    /\ status = "ok"
    /\ pc[t] = "pwt_final"
    /\ mtx = t
    /\ ret' = Return("Timeout", 0)
    /\ pc' = [pc EXCEPT ![t] = "idle"]
    /\ mtx' = NoThread
    /\ milliseconds' = [milliseconds EXCEPT ![t] = 0]
    /\ timer' = [timer EXCEPT ![t] = NoTimer]
    /\ offer' = [offer EXCEPT ![t] = "none"]
    /\ UNCHANGED <<capacity, status, queue, logs, owedFrom>>

\* Lines 84-85: after the deadline wait_for returns the predicate's value,
\* false; the function throws and the unique_lock unlocks.
PwtThrow(t) ==
    /\ status = "ok"
    /\ pc[t] = "pwt_final"
    /\ mtx = t
    /\ count = 0
    /\ ret' = Return("Timeout", 0)
    /\ pc' = [pc EXCEPT ![t] = "idle"]
    /\ mtx' = NoThread
    /\ milliseconds' = [milliseconds EXCEPT ![t] = 0]
    /\ timer' = [timer EXCEPT ![t] = NoTimer]
    /\ offer' = [offer EXCEPT ![t] = "none"]
    /\ UNCHANGED <<capacity, status, queue, logs, owedFrom>>

\* ----------------------------------------------------------------- Count
\* Lines 101-102.
CountBody(t) ==
    /\ status = "ok"
    /\ pc[t] = "count_cs"
    /\ mtx = t
    /\ ret' = Return("Count", count)
    /\ pc' = [pc EXCEPT ![t] = "idle"]
    /\ mtx' = NoThread
    /\ UNCHANGED <<capacity, status, queue, milliseconds, timer, logs, owedFrom, offer>>

\* ----------------------------------------------------------- environment
\* A condition-variable wait may return without a notification.
SpuriousWakeup(t) ==
    /\ status = "ok"
    /\ pc[t] \in {"pop_wait", "pwt_wait"}
    /\ pc' = [pc EXCEPT ![t] = Woken(t)]
    /\ ret' = NoRet
    /\ UNCHANGED <<capacity, status, queue, mtx, milliseconds, timer, logs, owedFrom, offer>>

\* One clock tick: every running wait_for deadline comes one tick closer.
Tick ==
    /\ status = "ok"
    /\ \E t \in Threads : timer[t] > 0
    /\ timer' = [t \in Threads |-> IF timer[t] > 0 THEN timer[t] - 1 ELSE timer[t]]
    /\ ret' = NoRet
    /\ UNCHANGED <<capacity, status, queue, mtx, pc, milliseconds, logs, owedFrom, offer>>

\* ------------------------------------------------------- specifications
\* What thread t does on its own once it is inside a call.
Progress(t) ==
    \/ Lock(t)
    \/ Reacquire(t)
    \/ PushBody(t, NextElement)
    \/ PopWait(t)
    \/ PopTake(t)
    \/ PwtWait(t)
    \/ PwtTake(t)
    \/ Expire(t)
    \/ PwtThrow(t)
    \/ CountBody(t)

Next ==
    \/ \E t \in Threads : CallPush(t)
    \/ \E t \in Threads : CallPop(t)
    \/ \E t \in Threads, ms \in 0..MaxMs : CallPopWithTimeout(t, ms)
    \/ \E t \in Threads : CallCount(t)
    \/ \E t \in Threads : Size(t)
    \/ \E t \in Threads : Lock(t)
    \/ \E t \in Threads : Reacquire(t)
    \/ \E t \in Threads : PushBody(t, NextElement)
    \/ \E t \in Threads : PopWait(t)
    \/ \E t \in Threads : PopTake(t)
    \/ \E t \in Threads : PwtWait(t)
    \/ \E t \in Threads : PwtTake(t)
    \/ \E t \in Threads : Expire(t)
    \/ \E t \in Threads : PwtThrow(t)
    \/ \E t \in Threads : CountBody(t)
    \/ \E t \in Threads : SpuriousWakeup(t)
    \/ Tick

Spec == Init /\ [][Next]_vars

\* Fair scheduling: the clock advances, and a thread that can take its next
\* step again and again (in particular one that contends for mtx) takes it.
Fairness ==
    /\ WF_vars(Tick)
    /\ \A t \in 1..NumThreads : SF_vars(Progress(t))

FairSpec == Spec /\ Fairness

NextAnyCapacity ==
    \/ Next
    \/ \E t \in Threads : PushBodyZero(t)

SpecAnyCapacity == InitAnyCapacity /\ [][NextAnyCapacity]_vars

\* One more thread than in Init, so that two consumers can be suspended on
\* the empty queue while a third thread pushes.
InitContended == InitFor(1..MaxSize, 1..(NumThreads + 1))

SpecContended == InitContended /\ [][Next]_vars

FairnessContended ==
    /\ WF_vars(Tick)
    /\ \A t \in 1..(NumThreads + 1) : SF_vars(Progress(t))

FairSpecContended == SpecContended /\ FairnessContended

\* ================================================================ claims
Max(a, b) == IF a >= b THEN a ELSE b

\* popLog is pushLog from position k + 1 on, as far as popLog goes.
PopsFollowPushesFrom(k) ==
    /\ Len(popLog) <= Len(pushLog) - k
    /\ \A i \in 1..Len(popLog) : popLog[i] = pushLog[k + i]

\* Thread t leaves a Pop or PopWithTimeout call in this step.
ConsumerReturns(t) == pc[t] \in {"pop_cs", "pwt_cs", "pwt_final"} /\ pc'[t] = "idle"

\* C1 - FIFO without overflow: when at most `size` elements have been pushed
\* on the new queue and every pop so far came after the last push, the pops
\* have returned the pushed elements in push order.
FifoWithoutOverflow ==
    (~pushAfterPop /\ Len(pushLog) <= size) => PopsFollowPushesFrom(0)

FifoWithoutOverflowWitness ==
    /\ ~pushAfterPop
    /\ size = MaxSize
    /\ Len(pushLog) = size
    /\ Len(popLog) = size

\* C2 - Eviction under overflow: when size + k elements (k >= 1) have been
\* pushed on the new queue and every pop so far came after the last push,
\* count was size before the first pop and the pops have returned the last
\* `size` pushed elements in push order; the first k are never returned.
EvictionUnderOverflow ==
    (~pushAfterPop /\ Len(pushLog) > size) =>
        /\ count = size - Len(popLog)
        /\ PopsFollowPushesFrom(Len(pushLog) - size)

EvictionUnderOverflowWitness ==
    /\ ~pushAfterPop
    /\ size = MaxSize
    /\ Len(pushLog) > size
    /\ Len(popLog) = size

\* C3 - Count bounds: 0 <= count <= size in every reachable state, and every
\* value Count() returns lies between 0 and Size().
CountBounds ==
    /\ 0 <= count
    /\ count <= size
    /\ ret.op = "Count" => (0 <= ret.val /\ ret.val <= size)

CountBoundsWitness ==
    /\ ret.op = "Count"
    /\ ret.val = size
    /\ evictions > 0

\* C4 - Count deltas: a Push run with count < size adds exactly 1 to count,
\* a Push run with count = size leaves it alone, a Pop or PopWithTimeout that
\* returns an element subtracts exactly 1, and no other step changes count.
CountDeltas ==
    [][ /\ (ret'.op = "Push" /\ count < size) => count' = count + 1
        /\ (ret'.op = "Push" /\ count = size) => count' = count
        /\ ret'.op \in {"Pop", "PopWithTimeout"} => count' = count - 1
        /\ ret'.op \notin {"Push", "Pop", "PopWithTimeout"} => count' = count ]_vars

CountDeltasWitness ==
    /\ ret.op = "PopWithTimeout"
    /\ evictions > 0
    /\ count = size - 1

\* C5 as stated - Blocking release: a Pop that was blocked on the empty queue
\* when another thread pushed v, with no other consumer active, returns v.
BlockedPopReturnsPushed ==
    [][ \A t \in Threads :
          (owedFrom[t] > 0 /\ ConsumerReturns(t)) =>
              ret'.val = pushLog[owedFrom[t]] ]_vars

\* C5 amended - under fair scheduling the blocked Pop returns, and it
\* returns v unless later pushes overflowed the queue before the blocked
\* thread ran again: then it returns the oldest element not evicted.
BlockingRelease ==
    /\ [][ \A t \in Threads :
             (owedFrom[t] > 0 /\ ConsumerReturns(t)) =>
                 /\ ret'.op = "Pop"
                 /\ ret'.val = pushLog[Max(owedFrom[t], Len(pushLog) - size + 1)] ]_vars
    /\ \A t \in 1..NumThreads :
          (owedFrom[t] > 0) ~>
              (pc[t] = "idle" \/ \E u \in Threads \ {t} : pc[u] \in ConsumerStates)

BlockingReleaseWitness ==
    \E t \in Threads :
        /\ owedFrom[t] > 0
        /\ pc[t] = "pop_cs"
        /\ Len(pushLog) - size + 1 > owedFrom[t]

\* C6 - Timeout leaves the state unchanged: the step in which PopWithTimeout
\* throws changes none of front, rear, count and elements; and a call that
\* found the queue empty and saw no Push can only end by throwing Timeout,
\* with count = 0 afterwards.
TimeoutLeavesState ==
    [][ /\ ret'.op = "Timeout" =>
              (front' = front /\ rear' = rear /\ count' = count /\ elements' = elements)
        /\ \A t \in Threads :
              (pc[t] \in PwtStates /\ pc'[t] = "idle" /\ offer[t] = "none") =>
                  (ret'.op = "Timeout" /\ count' = 0) ]_vars

TimeoutLeavesStateWitness ==
    /\ ret.op = "Timeout"
    /\ count = 0
    /\ pushLog = <<>>

\* C7 as stated - Timeout avoided: a PopWithTimeout call that was offered an
\* element before its deadline (the queue was non-empty at the call, or a
\* Push ran before the deadline) does not throw Timeout.
TimeoutAvoidedAlways ==
    [][ \A t \in Threads :
          (pc[t] = "pwt_final" /\ pc'[t] = "idle" /\ ret'.op = "Timeout") =>
              offer[t] \notin {"early", "stolen"} ]_vars

\* C7 amended - ... and no other consumer dequeued after the offer: then the
\* call returns an element and does not throw Timeout.
TimeoutAvoided ==
    [][ \A t \in Threads :
          (pc[t] \in PwtStates /\ pc'[t] = "idle" /\ offer[t] = "early") =>
              ret'.op = "PopWithTimeout" ]_vars

TimeoutAvoidedWitness ==
    \E t \in Threads :
        /\ pc[t] = "pwt_cs"
        /\ timer[t] # NoTimer
        /\ offer[t] = "early"
        /\ count > 0

\* C8 - Push never blocks on queue state: the mutex is only ever owned by a
\* thread that is running its critical section (a suspended consumer does
\* not own it), and under fair scheduling every started Push completes.
PushNeverBlocks ==
    /\ [](mtx # NoThread => pc[mtx] \in HoldingStates)
    /\ [](\A t \in Threads : pc[t] \in HoldingStates => mtx = t)
    /\ \A t \in 1..NumThreads : (pc[t] = "push_lock") ~> (pc[t] = "idle")

PushNeverBlocksWitness ==
    \E t \in Threads, u \in Threads :
        /\ pc[t] = "push_lock"
        /\ pc[u] \in {"pop_wait", "pwt_wait"}

\* C9 - Invalid capacity is rejected: a constructor call with capacity <= 0
\* fails and leaves no object on which an operation can be called.
InvalidCapacityRejected ==
    capacity <= 0 =>
        /\ status = "ctor_threw"
        /\ \A t \in Threads : pc[t] = "idle"

\* C10 - Size immutability: the size field is the constructor's argument in
\* every reachable state, and so is every value Size() returns.
SizeImmutable ==
    /\ size = capacity
    /\ ret.op = "Size" => ret.val = capacity

SizeImmutableWitness ==
    /\ ret.op = "Size"
    /\ evictions > 0
    /\ Len(popLog) > 0
    /\ \E t \in Threads : pc[t] \in HoldingStates

\* The elements in the queue, oldest first: slots front .. front + count - 1.
Live == [i \in 1..count |-> elements[(front + i - 1) % size]]

Range(s) == {s[i] : i \in 1..Len(s)}

\* s can be obtained from w by deleting elements.
RECURSIVE IsSubsequence(_, _)
IsSubsequence(s, w) ==
    IF s = <<>> THEN TRUE
    ELSE IF w = <<>> THEN FALSE
    ELSE IF Head(s) = Head(w) THEN IsSubsequence(Tail(s), Tail(w))
    ELSE IsSubsequence(s, Tail(w))

\* C11 - FIFO under concurrency: under every interleaving of the calls, the
\* elements returned by Pop/PopWithTimeout, in the order of their critical
\* sections, form a subsequence of the elements pushed, in the order of the
\* Push critical sections; the pushed elements that have not been returned
\* are exactly those overwritten by an overflowing Push and those still in
\* the queue.
FifoUnderConcurrency ==
    /\ IsSubsequence(popLog, pushLog)
    /\ Range(pushLog) \ Range(popLog) = evicted \cup Range(Live)

FifoUnderConcurrencyWitness ==
    /\ pushAfterPop
    /\ Len(popLog) = 2
    /\ popLog[2] > popLog[1] + 1
    /\ evicted # {}
    /\ \E t \in Threads : pc[t] \in {"pop_wait", "pwt_wait"}

IndexInvariant ==
    mtx = NoThread =>
        /\ rear = (front + count) % size
        /\ 0 <= front /\ front < size
        /\ 0 <= rear /\ rear < size
        /\ count = 0 => front = rear

IndexInvariantWitness ==
    /\ mtx = NoThread
    /\ rear < front
    /\ count > 0
    /\ Len(popLog) > 0

\* C14 - Mutual exclusion: at most one thread at a time is inside a critical
\* section of Push, Pop, PopWithTimeout or Count; a consumer suspended in
\* wait or wait_for does not own the mutex; and every step that changes
\* front, rear, count or elements is taken by the thread that owns it.
MutualExclusion ==
    /\ [](Cardinality({t \in Threads : pc[t] \in HoldingStates}) <= 1)
    /\ [](\A t \in Threads : pc[t] \in {"pop_wait", "pwt_wait"} => mtx # t)
    /\ [][ queue' # queue =>
              /\ mtx # NoThread
              /\ pc[mtx] \in HoldingStates
              /\ pc'[mtx] = "idle" ]_vars

MutualExclusionWitness ==
    \E t \in Threads, u \in Threads :
        /\ mtx = t
        /\ pc[t] \in {"pop_cs", "pwt_cs"}
        /\ count > 0
        /\ pc[u] \in {"pop_relock", "pwt_relock", "pwt_expired"}

\* C15 - The wake-up race is safe: a consumer dequeues only in a step taken
\* with count > 0; a consumer that checks count under the lock and finds 0
\* goes back to waiting (Pop, PopWithTimeout before its deadline) or throws
\* Timeout (PopWithTimeout after it); so the consumers never return more
\* elements than were pushed, and when two of them wait on the empty queue
\* and one Push runs, at most one of them returns its element.
WakeupRaceSafe ==
    /\ [][ popLog' # popLog => count > 0 ]_vars
    /\ [][ \A t \in Threads :
              (count = 0 /\ pc'[t] # pc[t]) =>
                  /\ pc[t] = "pop_cs" => pc'[t] = "pop_wait"
                  /\ pc[t] = "pwt_cs" => pc'[t] = "pwt_wait"
                  /\ pc[t] = "pwt_final" => ret'.op = "Timeout" ]_vars
    /\ [](count >= 0 /\ Len(popLog) <= Len(pushLog))

WakeupRaceSafeWitness ==
    \E t \in Threads, u \in Threads :
        /\ t # u
        /\ ret.op = "Push"
        /\ Len(pushLog) = 1
        /\ popLog = <<>>
        /\ pc[t] \in {"pop_relock", "pwt_relock"}
        /\ pc[u] \in {"pop_wait", "pwt_wait", "pop_relock", "pwt_relock", "pwt_expired"}

\* Where element x was pushed, in the order of the Push critical sections.
PushIndex(x) == CHOOSE i \in 1..Len(pushLog) : pushLog[i] = x

\* C16 - Element lifecycle: every pushed element is exactly one of live (in
\* slots front .. front + count - 1), evicted and consumed, and nothing else
\* is; an element is evicted only by a Push that runs with count = size, and
\* it is then the oldest live element; an element is consumed only by a Pop
\* or PopWithTimeout that returns it, and it is then the oldest live element;
\* so no element is returned twice and no pop returns an element that was
\* never pushed or was evicted.
ElementLifecycle ==
    /\ [](/\ Range(Live) \cup evicted \cup Range(popLog) = Range(pushLog)
          /\ Range(Live) \cap evicted = {}
          /\ Range(Live) \cap Range(popLog) = {}
          /\ evicted \cap Range(popLog) = {}
          /\ Cardinality(Range(Live)) = count
          /\ Cardinality(Range(popLog)) = Len(popLog))
    /\ [][ evicted' # evicted =>
              /\ ret'.op = "Push"
              /\ count = size
              /\ \E x \in Range(Live) :
                    /\ evicted' = evicted \cup {x}
                    /\ \A y \in Range(Live) : PushIndex(x) <= PushIndex(y) ]_vars
    /\ [][ popLog' # popLog =>
              /\ ret'.op \in {"Pop", "PopWithTimeout"}
              /\ \E x \in Range(Live) :
                    /\ popLog' = Append(popLog, x)
                    /\ ret'.val = x
                    /\ \A y \in Range(Live) : PushIndex(x) <= PushIndex(y) ]_vars

ElementLifecycleWitness ==
    /\ evicted # {}
    /\ popLog # <<>>
    /\ count > 0
    /\ ret.op \in {"Pop", "PopWithTimeout"}

\* The threads whose wait a step ends by waking them.
WokenInStep == {w \in Waiters : pc'[w] = Woken(w)}

\* C17 - One notification per Push: every Push step, adding or overwriting,
\* has written its element into the buffer and wakes exactly one of the
\* threads suspended in wait or wait_for if there is one, and none
\* otherwise; it moves no other thread.
OneNotificationPerPush ==
    [][ ret'.op = "Push" =>
          /\ elements'[rear] = ret'.val
          /\ Cardinality(WokenInStep) = (IF Waiters = {} THEN 0 ELSE 1)
          /\ \A w \in Threads :
                pc'[w] # pc[w] => (w \in WokenInStep \/ pc[w] = "push_cs") ]_vars

OneNotificationPerPushWitness ==
    \E t \in Threads, u \in Threads :
        /\ t # u
        /\ ret.op = "Push"
        /\ pc[t] \in {"pop_relock", "pwt_relock"}
        /\ pc[u] \in {"pop_wait", "pwt_wait"}

\* C18 - No stranded waiter: under fair scheduling, whenever count > 0 while
\* a thread is suspended in Pop, that thread later returns from Pop or count
\* drops to 0 (another consumer took the elements).  Init, Next and the
\* fairness condition treat all threads alike, so the property is stated for
\* one of them.
NoStrandedWaiter ==
    \A t \in {1} :
        (pc[t] = "pop_wait" /\ count > 0) ~> (pc[t] = "idle" \/ count = 0)

NoStrandedWaiterWitness ==
    \E t \in {1}, u \in Threads :
        /\ pc[t] = "pop_wait"
        /\ count > 0
        /\ pc[u] \in {"pop_relock", "pwt_relock"}

\* C19 - Timeout implies empty: PopWithTimeout throws Timeout only in a step
\* taken by the owner of the mutex, after the deadline, with count = 0; a
\* call whose deadline has passed but which finds count > 0 at that check
\* returns elements[front] instead.
TimeoutImpliesEmpty ==
    [][ /\ ret'.op = "Timeout" =>
              /\ count = 0
              /\ mtx # NoThread
              /\ pc[mtx] = "pwt_final"
              /\ pc'[mtx] = "idle"
        /\ \A t \in Threads :
              (pc[t] = "pwt_final" /\ count > 0 /\ pc'[t] # pc[t]) =>
                  ret' = Return("PopWithTimeout", elements[front]) ]_vars

TimeoutImpliesEmptyWitness ==
    \E t \in Threads :
        /\ pc[t] = "pwt_final"
        /\ mtx = t
        /\ count > 0

\* C20 - Conservation: whenever no thread owns the mutex, the number of
\* completed Push calls equals the number of elements returned by Pop and
\* PopWithTimeout, plus the number of Push calls that ran with count = size,
\* plus count.
Conservation ==
    mtx = NoThread => Len(pushLog) = Len(popLog) + evictions + count

ConservationWitness ==
    /\ \A t \in Threads : pc[t] = "idle"
    /\ Len(popLog) > 0
    /\ evictions > 0
    /\ count > 0

====
